---- MODULE Spec2Model ----
(***************************************************************************)
(* Model of the background job queue of k8s-watchdog-ai:                     *)
(*   storage/reports.py  (jobs and reports tables, ReportStorage)            *)
(*   jobs/queue.py       (JobQueue facade, Job snapshot)                     *)
(*   jobs/worker.py      (_worker_loop)                                      *)
(*   jobs/processors.py  (process_job, process_report_generation)            *)
(*                                                                           *)
(* Optional values (Python None / SQL NULL) are sequences of length <= 1:    *)
(* NULL is <<>> and Some(v) is <<v>>.  Text that the code assembles from     *)
(* pieces (an f-string) is the sequence of its pieces.  Timestamps are       *)
(* readings of the clock `now`.                                              *)
(***************************************************************************)
EXTENDS Integers, Sequences, FiniteSets, TLC

\* ---------------------------------------------------------------- bounds
MaxJobs == 2          \* enqueues explored
MaxClock == 1         \* clock readings 0..MaxClock
MaxRetriesCfg == 1    \* settings.job_max_retries ranges over 0..MaxRetriesCfg
MaxReports == 3       \* report rows found in the database at start-up
MaxRequests == 2      \* POST /report requests explored

\* ------------------------------------------------------------- settings
cluster_name == "default"   \* settings.cluster_name
retention_weeks == 2        \* settings.retention_weeks; the clock counts weeks

\* ------------------------------------------------------------ optionals
NULL == <<>>
Some(v) == <<v>>
Val(o) == o[1]

\* --------------------------------------------------------------- inputs
\* Python dicts are sets of <<key, value>> pairs.
EmptyDict == {}
UrgentDict == {<<"urgent", "true">>}
EnqueuePayloads == {NULL, Some(EmptyDict)}
JobTypes == {"generate_report", "send_digest"}

\* ----------------------------------------------------------------- JSON
\* json.dumps / json.loads: the text of a value is the tagged pair
\* <<"json", value>>; any other text does not decode.
json_dumps(v) == <<"json", v>>
is_json(s) == Len(s) = 2 /\ s[1] = "json"
json_loads(s) == s[2]
\* truthiness of an optional dict (`if payload`) and of an optional text
\* (`if job_data.get("payload")`)
truthy_dict(o) == o # NULL /\ Val(o) # EmptyDict
truthy_text(o) == o # NULL /\ Val(o) # <<>>

VARIABLES
    jobs,             \* jobs table: row id |-> row (AUTOINCREMENT ids 1..n)
    reports,          \* reports table: row id |-> row
    now,              \* wall clock
    job_max_retries,  \* settings.job_max_retries
    pc,               \* position of _worker_loop
    job,              \* _worker_loop local `job` (Job snapshot) or NULL
    result,           \* _worker_loop local `result` or NULL
    job_error,        \* exception bound by the inner `except` or NULL
    threads,          \* executor threads started by asyncio.to_thread
    cancelled,        \* the worker task has been cancelled
    attempts,         \* history: executor invocations per job id
    health,           \* GET /health: "idle", or "waiting" for its answer
    boot,             \* position of lifespan (main.py) in the start-up sequence
    deleted,          \* lifespan local `deleted` (count of the sweep) or NULL
    report_in_progress,  \* main.py global report_in_progress
    requests          \* POST /report requests with their background tasks

\* the request surface and the start-up sequence
trigger == <<report_in_progress, requests>>

app == <<health, boot, deleted, trigger>>

vars == <<jobs, reports, now, job_max_retries, pc, job, result, job_error,
          threads, cancelled, attempts, app>>

\* mutant: the payload column defaults to the empty string
AppendJobRow_blank(tbl, job_type, payload, t) ==
    Append(tbl, [type |-> job_type, status |-> "pending",
                 payload |-> IF payload = NULL THEN Some(<<>>) ELSE payload,
                 created_at |-> t, started_at |-> NULL, completed_at |-> NULL,
                 result |-> NULL, error |-> NULL, retry_count |-> 0])

\* ============================================================== storage
\* ReportStorage.insert_job
AppendJobRow(tbl, job_type, payload, t) ==
    Append(tbl, [type |-> job_type, status |-> "pending", payload |-> payload,
                 created_at |-> t, started_at |-> NULL, completed_at |-> NULL,
                 result |-> NULL, error |-> NULL, retry_count |-> 0])

insert_job(tbl, job_type, payload, t) == AppendJobRow(tbl, job_type, payload, t)

\* ORDER BY created_at ASC, answered from idx_jobs_status_created whose
\* entries are ordered (status, created_at, rowid): among equal created_at
\* (CURRENT_TIMESTAMP has one-second resolution) the lowest rowid comes first.
OrderedBefore(tbl, i, k) ==
    \/ tbl[i].created_at < tbl[k].created_at
    \/ tbl[i].created_at = tbl[k].created_at /\ i <= k

PendingIds(tbl) == {i \in DOMAIN tbl : tbl[i].status = "pending"}

\* mutant: ORDER BY created_at DESC
get_pending_job_desc(tbl) ==
    IF PendingIds(tbl) = {} THEN NULL
    ELSE LET i == CHOOSE i \in PendingIds(tbl) :
                      \A k \in PendingIds(tbl) : OrderedBefore(tbl, k, i)
         IN Some([id |-> i, type |-> tbl[i].type, status |-> tbl[i].status,
                  payload |-> tbl[i].payload, created_at |-> tbl[i].created_at,
                  retry_count |-> tbl[i].retry_count])

\* mutant: only jobs that were never retried are eligible
get_pending_job_fresh_only(tbl) ==
    LET fresh == {i \in PendingIds(tbl) : tbl[i].retry_count = 0} IN
    IF fresh = {} THEN NULL
    ELSE LET i == CHOOSE i \in fresh : \A k \in fresh : OrderedBefore(tbl, i, k)
         IN Some([id |-> i, type |-> tbl[i].type, status |-> tbl[i].status,
                  payload |-> tbl[i].payload, created_at |-> tbl[i].created_at,
                  retry_count |-> tbl[i].retry_count])

\* mutant: a job left processing is picked up again
get_pending_job_recover(tbl) ==
    LET open == {i \in DOMAIN tbl : tbl[i].status \in {"pending", "processing"}} IN
    IF open = {} THEN NULL
    ELSE LET i == CHOOSE i \in open : \A k \in open : OrderedBefore(tbl, i, k)
         IN Some([id |-> i, type |-> tbl[i].type, status |-> tbl[i].status,
                  payload |-> tbl[i].payload, created_at |-> tbl[i].created_at,
                  retry_count |-> tbl[i].retry_count])

\* ReportStorage.get_pending_job
get_pending_job(tbl) ==
    IF PendingIds(tbl) = {} THEN NULL
    ELSE LET i == CHOOSE i \in PendingIds(tbl) :
                      \A k \in PendingIds(tbl) : OrderedBefore(tbl, i, k)
         IN Some([id |-> i, type |-> tbl[i].type, status |-> tbl[i].status,
                  payload |-> tbl[i].payload, created_at |-> tbl[i].created_at,
                  retry_count |-> tbl[i].retry_count])

\* mutant: the two timestamp columns are taken the other way round
timestamp_field_swapped(status) ==
    IF status = "processing" THEN "completed_at" ELSE "started_at"

\* ReportStorage.update_job_status: one UPDATE ... WHERE id = ?
timestamp_field(status) ==
    IF status = "processing" THEN "started_at" ELSE "completed_at"

\* mutant: every status update also resets the retry counter
update_job_status_reset(tbl, id, status, res, err, t) ==
    IF id \notin DOMAIN tbl THEN tbl
    ELSE [tbl EXCEPT ![id] =
            [[@ EXCEPT !.status = status, !.result = res, !.error = err,
                       !.retry_count = 0]
                EXCEPT ![timestamp_field(status)] = Some(t)]]

update_job_status(tbl, id, status, res, err, t) ==
    IF id \notin DOMAIN tbl THEN tbl
    ELSE [tbl EXCEPT ![id] =
            [[@ EXCEPT !.status = status, !.result = res, !.error = err]
                EXCEPT ![timestamp_field(status)] = Some(t)]]

\* mutant: the retry only counts, the status is not reset
increment_job_retry_keep_status(tbl, id, t) ==
    IF id \notin DOMAIN tbl THEN tbl
    ELSE [tbl EXCEPT ![id].retry_count = @ + 1]

\* mutant: the retried job is re-stamped, as if enqueued again
increment_job_retry_restamp(tbl, id, t) ==
    IF id \notin DOMAIN tbl THEN tbl
    ELSE [tbl EXCEPT ![id].retry_count = @ + 1, ![id].status = "pending",
                     ![id].created_at = t]

\* mutant: the UPDATE has no WHERE clause
increment_job_retry_all(tbl, id, t) ==
    [k \in DOMAIN tbl |->
        [tbl[k] EXCEPT !.retry_count = @ + 1, !.status = "pending"]]

\* ReportStorage.increment_job_retry (the table after the UPDATE)
increment_job_retry(tbl, id, t) ==
    IF id \notin DOMAIN tbl THEN tbl
    ELSE [tbl EXCEPT ![id].retry_count = @ + 1, ![id].status = "pending"]

\* the value increment_job_retry returns: the retry_count read back after
\* the UPDATE, 0 if there is no such row
increment_job_retry_returns(tbl, id, t) ==
    LET after == increment_job_retry(tbl, id, t) IN
    IF id \in DOMAIN after THEN after[id].retry_count ELSE 0

\* mutant: only the oldest report past the cutoff is deleted
cleanup_old_reports_one(tbl, t) ==
    LET cutoff_date == t - retention_weeks
        old == {i \in DOMAIN tbl : /\ tbl[i].cluster_name = cluster_name
                                   /\ tbl[i].generated_at < cutoff_date}
    IN IF old = {} THEN [reports |-> tbl, deleted_count |-> 0]
       ELSE LET d == CHOOSE i \in old : \A k \in old : i <= k IN
            [reports |-> [k \in 1..(Len(tbl) - 1) |->
                             IF k < d THEN tbl[k] ELSE tbl[k + 1]],
             deleted_count |-> 1]

\* mutant: the DELETE does not filter on the cluster
cleanup_old_reports_any_cluster(tbl, t) ==
    LET cutoff_date == t - retention_weeks
        Kept(r) == ~(r.generated_at < cutoff_date)
    IN [reports |-> SelectSeq(tbl, Kept),
        deleted_count |-> Len(tbl) - Len(SelectSeq(tbl, Kept))]

\* ReportStorage.cleanup_old_reports at clock reading t: the table after the
\* DELETE and the returned cursor.rowcount
cleanup_old_reports(tbl, t) ==
    LET cutoff_date == t - retention_weeks
        Kept(r) == ~(r.cluster_name = cluster_name /\ r.generated_at < cutoff_date)
    IN [reports |-> SelectSeq(tbl, Kept),
        deleted_count |-> Len(tbl) - Len(SelectSeq(tbl, Kept))]

\* ReportStorage.save_report
save_report(tbl, html, t) ==
    Append(tbl, [cluster_name |-> cluster_name, generated_at |-> t,
                 report_html |-> html])

\* mutant: a job type that is already pending or processing is not queued
\* a second time
enqueue_dedup(tbl, job_type, payload, t) ==
    IF \E i \in DOMAIN tbl :
           tbl[i].type = job_type /\ tbl[i].status \in {"pending", "processing"}
    THEN tbl
    ELSE insert_job(tbl, job_type,
                    IF truthy_dict(payload) THEN Some(json_dumps(Val(payload)))
                    ELSE NULL, t)

\* ================================================================ queue
\* JobQueue.enqueue
enqueue(tbl, job_type, payload, t) ==
    insert_job(tbl, job_type,
               IF truthy_dict(payload) THEN Some(json_dumps(Val(payload)))
               ELSE NULL, t)

\* mutant: a payload that does not decode fails the dequeue
get_next_job_strict(tbl) ==
    LET job_data == get_pending_job(tbl) IN
    IF job_data = NULL THEN NULL
    ELSE LET row == Val(job_data) IN
         IF truthy_text(row.payload) /\ ~is_json(Val(row.payload)) THEN NULL
         ELSE Some([id |-> row.id, type |-> row.type, status |-> row.status,
                    payload |-> IF truthy_text(row.payload)
                                THEN Some(json_loads(Val(row.payload)))
                                ELSE NULL,
                    created_at |-> row.created_at,
                    retry_count |-> row.retry_count])

\* JobQueue.get_next_job
get_next_job(tbl) ==
    LET job_data == get_pending_job(tbl) IN
    IF job_data = NULL THEN NULL
    ELSE LET row == Val(job_data)
             payload == IF truthy_text(row.payload) /\ is_json(Val(row.payload))
                        THEN Some(json_loads(Val(row.payload)))
                        ELSE NULL
         IN Some([id |-> row.id, type |-> row.type, status |-> row.status,
                  payload |-> payload, created_at |-> row.created_at,
                  retry_count |-> row.retry_count])

\* mutant: the status is left as it was
mark_processing_noop(tbl, id, t) == tbl

\* JobQueue.mark_processing
mark_processing(tbl, id, t) ==
    update_job_status(tbl, id, "processing", NULL, NULL, t)

\* mutant: a completed job is removed from the table
mark_completed_purge(tbl, id, res, t) ==
    [k \in 1..(Len(tbl) - 1) |-> IF k < id THEN tbl[k] ELSE tbl[k + 1]]

\* JobQueue.mark_completed
mark_completed(tbl, id, res, t) ==
    update_job_status(tbl, id, "completed", Some(json_dumps(res)), NULL, t)

\* mutant: the retry flag is ignored
mark_failed_terminal(tbl, id, error, retry, t) ==
    update_job_status(tbl, id, "failed", NULL, Some(error), t)

\* mutant: the message of a retried attempt is kept on the job
mark_failed_keeps_message(tbl, id, error, retry, t) ==
    IF retry
    THEN IF id \notin DOMAIN tbl THEN tbl
         ELSE [increment_job_retry(tbl, id, t) EXCEPT ![id].error = Some(error)]
    ELSE update_job_status(tbl, id, "failed", NULL, Some(error), t)

\* JobQueue.mark_failed
mark_failed(tbl, id, error, retry, t) ==
    IF retry THEN increment_job_retry(tbl, id, t)
    ELSE update_job_status(tbl, id, "failed", NULL, Some(error), t)

\* ============================================================ executor
\* Exceptions carry their type name, the pieces of str(e) and the call that
\* raised them.
Exc(kind, msg, by) == [kind |-> kind, msg |-> msg, raised_by |-> by]

UnknownJobType(t) == Exc("ValueError", <<"Unknown job type: ", t>>, "process_job")
AcquireErrors == {Exc("AttributeError", <<"anthropic_api_key">>, "process_job")}
AnalysisErrors == {Exc("RuntimeError", <<"No tools available">>, "process_job"),
                   Exc("TimeoutError", <<>>, "process_job")}
DeliverErrors == {Exc("RuntimeError", <<"Slack API error (step 1): ", "invalid_auth">>,
                      "process_job")}
StoreError(by) == Exc("OperationalError", <<"database is locked">>, by)

\* the dict returned by process_report_generation (timing and size left out)
SuccessResult(report_id) == [status |-> "success", report_id |-> report_id]

\* One executor invocation (attempt).  agent: K8sWatchdogAgent() has been
\* constructed; cleaned: agent.cleanup() has run; steps: the steps of
\* process_report_generation that have succeeded, in the order they ran;
\* in_thread: the invocation runs in a thread of the default executor, not
\* on the event loop.
Thread(p, ty, rid, res, e) ==
    [pc |-> p, type |-> ty, report_id |-> rid, result |-> res, exc |-> e,
     cleaned |-> FALSE, agent |-> FALSE, steps |-> <<>>, in_thread |-> TRUE]
NoThreads == [j \in {} |-> Thread("start", "", NULL, NULL, NULL)]
SetThread(ths, j, th) ==
    [k \in (DOMAIN ths) \cup {j} |-> IF k = j THEN th ELSE ths[k]]
DropThread(ths, j) == [k \in (DOMAIN ths) \ {j} |-> ths[k]]
\* executor invocations that have neither returned nor raised
Running == {j \in DOMAIN threads : threads[j].pc \notin {"returned", "raised"}}

\* an exception leaves process_report_generation: the finally closes the
\* event loop, the except logs and re-raises
Raise(j, e) ==
    threads' = SetThread(threads, j,
                    [threads[j] EXCEPT !.pc = "raised", !.exc = Some(e)])
\* a step of the attempt has succeeded
Done(th, s) == [th EXCEPT !.steps = Append(@, s)]

\* mutant: every job type is handed to process_report_generation
ExecStartAnyType ==
    \E j \in DOMAIN threads :
        /\ threads[j].pc = "start"
        /\ \/ threads' = SetThread(threads, j,
                           [threads[j] EXCEPT !.pc = "analysis",
                                              !.agent = TRUE])
           \/ \E e \in AcquireErrors : Raise(j, e)
        /\ UNCHANGED <<app, jobs, reports, now, job_max_retries, pc, job, result,
                       job_error, cancelled, attempts>>

\* process_job dispatches on job.type; process_report_generation makes the
\* event loop and constructs K8sWatchdogAgent() and ReportStorage()
ExecStart ==
    \E j \in DOMAIN threads :
        /\ threads[j].pc = "start"
        /\ IF threads[j].type = "generate_report"
           THEN \/ threads' = SetThread(threads, j,
                                  [threads[j] EXCEPT !.pc = "analysis",
                                                     !.agent = TRUE])
                \/ \E e \in AcquireErrors : Raise(j, e)
           ELSE Raise(j, UnknownJobType(threads[j].type))
        /\ UNCHANGED <<app, jobs, reports, now, job_max_retries, pc, job, result,
                       job_error, cancelled, attempts>>

\* mutant: a failed analysis is swallowed and the attempt goes on
ExecAnalysisContinues ==
    \E j \in DOMAIN threads :
        /\ threads[j].pc = "analysis"
        /\ \/ threads' = SetThread(threads, j,
                           Done([threads[j] EXCEPT !.pc = "persist"], "analysis"))
           \/ threads' = SetThread(threads, j,
                           [threads[j] EXCEPT !.pc = "persist"])
        /\ UNCHANGED <<app, jobs, reports, now, job_max_retries, pc, job, result,
                       job_error, cancelled, attempts>>

\* agent.generate_weekly_report()
ExecAnalysis ==
    \E j \in DOMAIN threads :
        /\ threads[j].pc = "analysis"
        /\ \/ threads' = SetThread(threads, j,
                           Done([threads[j] EXCEPT !.pc = "persist"], "analysis"))
           \/ \E e \in AnalysisErrors : Raise(j, e)
        /\ UNCHANGED <<app, jobs, reports, now, job_max_retries, pc, job, result,
                       job_error, cancelled, attempts>>

\* storage.save_report(report_html)
ExecPersist ==
    \E j \in DOMAIN threads :
        /\ threads[j].pc = "persist"
        /\ reports' = save_report(reports, "html", now)
        /\ threads' = SetThread(threads, j,
                        Done([threads[j] EXCEPT !.pc = "deliver",
                                                !.report_id = Some(Len(reports'))],
                             "persist"))
        /\ UNCHANGED <<app, jobs, now, job_max_retries, pc, job, result,
                       job_error, cancelled, attempts>>

\* _build_tools_info_message and SlackReporter().send_html_report(...); on
\* success agent.cleanup() and `return {...}` follow
ExecDeliver ==
    \E j \in DOMAIN threads :
        /\ threads[j].pc = "deliver"
        /\ \/ threads' = SetThread(threads, j,
                           Done([threads[j] EXCEPT
                                    !.pc = "returned", !.cleaned = TRUE,
                                    !.result = Some(SuccessResult(Val(threads[j].report_id)))],
                                "deliver"))
           \/ \E e \in DeliverErrors : Raise(j, e)
        /\ UNCHANGED <<app, jobs, reports, now, job_max_retries, pc, job, result,
                       job_error, cancelled, attempts>>

\* ========================================================== environment
\* the wall clock advances
Tick ==
    /\ now < MaxClock
    /\ now' = now + 1
    /\ UNCHANGED <<app, jobs, reports, job_max_retries, pc, job, result, job_error,
                   threads, cancelled, attempts>>

\* a trigger calls queue.enqueue(job_type, payload)
Enqueue ==
    /\ Len(jobs) < MaxJobs
    /\ \E ty \in JobTypes, pl \in EnqueuePayloads :
           jobs' = enqueue(jobs, ty, pl, now)
    /\ attempts' = Append(attempts, 0)
    /\ UNCHANGED <<app, reports, now, job_max_retries, pc, job, result, job_error,
                   threads, cancelled>>

\* ========================================================= _worker_loop
\* mutant: only str(job_error) is kept
error_msg_plain(e) == e.msg

\* f"{type(job_error).__name__}: {str(job_error)}"
error_msg(e) == <<e.kind, ": ">> \o e.msg

\* mutant: off by one in the retry test
should_retry_le(j, max_retries) == j.retry_count <= max_retries

\* should_retry = job.retry_count < settings.job_max_retries
should_retry(j, max_retries) == j.retry_count < max_retries

\* mutant: the dequeue claims the job, setting it to processing at once
GetNextJobClaims ==
    /\ pc = "poll"
    /\ job' = get_next_job(jobs)
    /\ jobs' = IF job' # NULL THEN mark_processing(jobs, Val(job').id, now)
               ELSE jobs
    /\ pc' = IF job' # NULL THEN "mark" ELSE "sleep_poll"
    /\ UNCHANGED <<app, reports, now, job_max_retries, result, job_error,
                   threads, cancelled, attempts>>

\* job = await queue.get_next_job(); `if job:` / `else: await asyncio.sleep(poll)`
GetNextJob ==
    /\ pc = "poll"
    /\ job' = get_next_job(jobs)
    /\ pc' = IF job' # NULL THEN "mark" ELSE "sleep_poll"
    /\ UNCHANGED <<app, jobs, reports, now, job_max_retries, result, job_error,
                   threads, cancelled, attempts>>

\* asyncio.sleep(settings.job_poll_interval) returns
PollWake ==
    /\ pc = "sleep_poll"
    /\ pc' = "poll"
    /\ UNCHANGED <<app, jobs, reports, now, job_max_retries, job, result, job_error,
                   threads, cancelled, attempts>>

\* await queue.mark_processing(job.id)
MarkProcessing ==
    /\ pc = "mark"
    /\ jobs' = mark_processing(jobs, Val(job).id, now)
    /\ pc' = "dispatch"
    /\ UNCHANGED <<app, reports, now, job_max_retries, job, result, job_error,
                   threads, cancelled, attempts>>

\* mutant: the executor is started but not awaited
DispatchNoAwait ==
    /\ pc = "dispatch"
    /\ threads' = SetThread(threads, Val(job).id,
                            Thread("start", Val(job).type, NULL, NULL, NULL))
    /\ attempts' = [attempts EXCEPT ![Val(job).id] = @ + 1]
    /\ pc' = "poll"
    /\ UNCHANGED <<app, jobs, reports, now, job_max_retries, job, result, job_error,
                   cancelled>>

\* mutant: process_job(job) is called on the event loop, not in a thread
DispatchInline ==
    /\ pc = "dispatch"
    /\ threads' = SetThread(threads, Val(job).id,
                            [Thread("start", Val(job).type, NULL, NULL, NULL)
                                EXCEPT !.in_thread = FALSE])
    /\ attempts' = [attempts EXCEPT ![Val(job).id] = @ + 1]
    /\ pc' = "exec"
    /\ UNCHANGED <<app, jobs, reports, now, job_max_retries, job, result, job_error,
                   cancelled>>

\* asyncio.to_thread(process_job, job) starts the executor; the loop awaits it
Dispatch ==
    /\ pc = "dispatch"
    /\ threads' = SetThread(threads, Val(job).id,
                            Thread("start", Val(job).type, NULL, NULL, NULL))
    /\ attempts' = [attempts EXCEPT ![Val(job).id] = @ + 1]
    /\ pc' = "exec"
    /\ UNCHANGED <<app, jobs, reports, now, job_max_retries, job, result, job_error,
                   cancelled>>

\* the awaited executor returned: result = ...
AwaitReturns ==
    /\ pc = "exec"
    /\ Val(job).id \in DOMAIN threads
    /\ threads[Val(job).id].pc = "returned"
    /\ result' = threads[Val(job).id].result
    /\ threads' = DropThread(threads, Val(job).id)
    /\ pc' = "complete"
    /\ UNCHANGED <<app, jobs, reports, now, job_max_retries, job, job_error,
                   cancelled, attempts>>

\* the awaited executor raised: except Exception as job_error
AwaitRaises ==
    /\ pc = "exec"
    /\ Val(job).id \in DOMAIN threads
    /\ threads[Val(job).id].pc = "raised"
    /\ job_error' = threads[Val(job).id].exc
    /\ threads' = DropThread(threads, Val(job).id)
    /\ pc' = "except"
    /\ UNCHANGED <<app, jobs, reports, now, job_max_retries, job, result,
                   cancelled, attempts>>

\* mutant: the loop sleeps for the poll interval after every finished job
MarkCompletedThenSleep ==
    /\ pc = "complete"
    /\ jobs' = mark_completed(jobs, Val(job).id, Val(result), now)
    /\ pc' = "sleep_poll"
    /\ job' = NULL
    /\ result' = NULL
    /\ UNCHANGED <<app, reports, now, job_max_retries, job_error, threads,
                   cancelled, attempts>>

\* await queue.mark_completed(job.id, result); next iteration
MarkCompleted ==
    /\ pc = "complete"
    /\ jobs' = mark_completed(jobs, Val(job).id, Val(result), now)
    /\ pc' = "poll"
    /\ job' = NULL
    /\ result' = NULL
    /\ UNCHANGED <<app, reports, now, job_max_retries, job_error, threads,
                   cancelled, attempts>>

\* await queue.mark_failed(job.id, error_msg, retry=should_retry); next iteration
MarkFailed ==
    /\ pc = "except"
    /\ jobs' = mark_failed(jobs, Val(job).id, error_msg(Val(job_error)),
                           should_retry(Val(job), job_max_retries), now)
    /\ pc' = "poll"
    /\ job' = NULL
    /\ result' = NULL
    /\ job_error' = NULL
    /\ UNCHANGED <<app, reports, now, job_max_retries, threads, cancelled, attempts>>

\* ===================================================== specification
Init ==
    /\ jobs = <<>>
    /\ reports = <<>>
    /\ now = 0
    /\ job_max_retries \in 0..MaxRetriesCfg
    /\ pc = "poll"
    /\ job = NULL
    /\ result = NULL
    /\ job_error = NULL
    /\ threads = NoThreads
    /\ cancelled = FALSE
    /\ attempts = <<>>
    /\ health = "idle"
    /\ boot = "serving"
    /\ deleted = NULL
    /\ report_in_progress = FALSE
    /\ requests = <<>>

Executor ==
    \/ ExecStart
    \/ ExecAnalysis
    \/ ExecPersist
    \/ ExecDeliver

Worker ==
    \/ GetNextJob
    \/ PollWake
    \/ MarkProcessing
    \/ Dispatch
    \/ AwaitReturns
    \/ AwaitRaises
    \/ MarkCompleted
    \/ MarkFailed

\* Single worker, no failing Store call, no cancellation, no crash.  No guard
\* reads the clock and created_at never decreases from one row id to the
\* next, so the clock decides no step: Spec explores one clock reading and
\* TimedSpec, for the claims about timestamps, lets the clock advance.
Next == Enqueue \/ Worker \/ Executor

Spec == Init /\ [][Next]_vars

TimedNext == Tick \/ Next

TimedSpec == Init /\ [][TimedNext]_vars

\* =============================================================== faults
\* A failing Store call raises before it changes the table.

\* queue.get_next_job() raises: outer `except Exception`, asyncio.sleep(5)
GetNextJobFails ==
    /\ pc = "poll"
    /\ pc' = "sleep_err"
    /\ UNCHANGED <<app, jobs, reports, now, job_max_retries, job, result, job_error,
                   threads, cancelled, attempts>>

\* queue.mark_processing() raises: outer `except Exception`, asyncio.sleep(5)
MarkProcessingFails ==
    /\ pc = "mark"
    /\ pc' = "sleep_err"
    /\ job' = NULL
    /\ UNCHANGED <<app, jobs, reports, now, job_max_retries, result, job_error,
                   threads, cancelled, attempts>>

\* queue.mark_completed() raises inside the inner try: `except Exception as
\* job_error` binds the Store's exception
MarkCompletedFails ==
    /\ pc = "complete"
    /\ job_error' = Some(StoreError("mark_completed"))
    /\ pc' = "except"
    /\ UNCHANGED <<app, jobs, reports, now, job_max_retries, job, result,
                   threads, cancelled, attempts>>

\* mutant: the outer handler lets the exception end the loop
MarkFailedFailsEscapes ==
    /\ pc = "except"
    /\ pc' = "terminated"
    /\ job' = NULL
    /\ result' = NULL
    /\ job_error' = NULL
    /\ UNCHANGED <<app, jobs, reports, now, job_max_retries, threads, cancelled,
                   attempts>>

\* queue.mark_failed() raises inside the inner handler: outer `except
\* Exception`, asyncio.sleep(5)
MarkFailedFails ==
    /\ pc = "except"
    /\ pc' = "sleep_err"
    /\ job' = NULL
    /\ result' = NULL
    /\ job_error' = NULL
    /\ UNCHANGED <<app, jobs, reports, now, job_max_retries, threads, cancelled,
                   attempts>>

\* asyncio.sleep(5) returns
ErrWake ==
    /\ pc = "sleep_err"
    /\ pc' = "poll"
    /\ UNCHANGED <<app, jobs, reports, now, job_max_retries, job, result, job_error,
                   threads, cancelled, attempts>>

\* storage.save_report() raises in the executor
ExecPersistFails ==
    \E j \in DOMAIN threads :
        /\ threads[j].pc = "persist"
        /\ Raise(j, StoreError("process_job"))
        /\ UNCHANGED <<app, jobs, reports, now, job_max_retries, pc, job, result,
                       job_error, cancelled, attempts>>

\* mutant: the cancellation is caught like any other error of the loop, which
\* pauses and goes on polling
CancelSwallowed ==
    /\ pc # "terminated"
    /\ cancelled' = TRUE
    /\ pc' = "sleep_err"
    /\ job' = NULL
    /\ result' = NULL
    /\ job_error' = NULL
    /\ UNCHANGED <<app, jobs, reports, now, job_max_retries, threads, attempts>>

\* mutant: cancelling the worker task also ends its executor threads
CancelStopsExecutor ==
    /\ pc # "terminated"
    /\ cancelled' = TRUE
    /\ pc' = "terminated"
    /\ job' = NULL
    /\ result' = NULL
    /\ job_error' = NULL
    /\ threads' = NoThreads
    /\ UNCHANGED <<app, jobs, reports, now, job_max_retries, attempts>>

\* worker_task.cancel(): CancelledError is thrown into the loop at its
\* current await, `except asyncio.CancelledError: raise` ends the task; a
\* running executor thread is not interrupted
Cancel ==
    /\ pc # "terminated"
    /\ cancelled' = TRUE
    /\ pc' = "terminated"
    /\ job' = NULL
    /\ result' = NULL
    /\ job_error' = NULL
    /\ UNCHANGED <<app, jobs, reports, now, job_max_retries, threads, attempts>>

\* the process dies and is started again: the tables survive, the executor
\* threads do not, a new worker loop starts polling
Crash ==
    /\ pc' = "poll"
    /\ job' = NULL
    /\ result' = NULL
    /\ job_error' = NULL
    /\ threads' = NoThreads
    /\ cancelled' = FALSE
    /\ UNCHANGED <<app, jobs, reports, now, job_max_retries, attempts>>

StoreFaults ==
    \/ GetNextJobFails
    \/ MarkProcessingFails
    \/ MarkCompletedFails
    \/ MarkFailedFails
    \/ ErrWake
    \/ ExecPersistFails

\* The worker task is scheduled whenever it can take a step (a Store call
\* returns, a sleep ends, the awaited executor has finished), and a running
\* executor thread takes its next step, returning or raising in the end.
\* Which jobs are enqueued and whether a step succeeds stays free.
FairSpec == Spec /\ WF_vars(Worker) /\ WF_vars(Executor)

\* The fault-free system in which the process may die and be started again.
CrashNext == Next \/ Crash

CrashSpec == Init /\ [][CrashNext]_vars

\* Payload texts a caller of ReportStorage.insert_job can store: none, the
\* empty string, a text that is not JSON, the JSON text of a dict.
RawPayloads == {NULL, Some(<<>>), Some(<<"{not json">>),
                Some(json_dumps(UrgentDict))}

\* a caller of the Store inserts a job row, not going through JobQueue.enqueue
InsertJob ==
    /\ Len(jobs) < MaxJobs
    /\ \E pl \in RawPayloads :
           jobs' = insert_job(jobs, "generate_report", pl, now)
    /\ attempts' = Append(attempts, 0)
    /\ UNCHANGED <<app, reports, now, job_max_retries, pc, job, result, job_error,
                   threads, cancelled>>

\* The fault-free system with job rows written directly to the Store.
RawNext == Next \/ InsertJob

RawSpec == Init /\ [][RawNext]_vars

\* The event loop can run a request handler unless synchronous code occupies
\* it: every position of _worker_loop is an await, and an executor
\* invocation occupies the loop only if it does not run in a thread.
LoopFree == \A j \in Running : threads[j].in_thread

\* a client sends GET /health
HealthRequest ==
    /\ health = "idle"
    /\ health' = "waiting"
    /\ UNCHANGED <<jobs, reports, now, job_max_retries, pc, job, result,
                   job_error, threads, cancelled, attempts, trigger,
                   boot, deleted>>

\* the application has started (lifespan has yielded) and the event loop
\* runs health_check, which returns its constant answer
HealthCheck ==
    /\ health = "waiting"
    /\ boot = "serving"
    /\ LoopFree
    /\ health' = "idle"
    /\ UNCHANGED <<jobs, reports, now, job_max_retries, pc, job, result,
                   job_error, threads, cancelled, attempts, trigger,
                   boot, deleted>>

\* The fault-free system with the liveness endpoint.
HealthNext == Next \/ HealthRequest \/ HealthCheck

HealthSpec == Init /\ [][HealthNext]_vars

\* ------------------------------------------------------------- start-up
\* What lifespan can find in the database file: report rows of this and of
\* another cluster, generated just before, at and after the retention
\* cutoff of clock reading 0, and the job rows of an earlier run.
BootReportRows ==
    [cluster_name : {cluster_name, "other"},
     generated_at : {0 - retention_weeks - 1, 0 - retention_weeks,
                     0 - retention_weeks + 1},
     report_html : {"html"}]

BootReports ==
    UNION {[1..n -> BootReportRows] : n \in 0..MaxReports}

BootJobs ==
    LET one == insert_job(<<>>, "generate_report", NULL, 0 - 1)
        two == insert_job(mark_processing(one, 1, 0 - 1), "generate_report",
                          NULL, 0 - 1)
    IN {<<>>, one, two}

BootInit ==
    /\ jobs \in BootJobs
    /\ reports \in BootReports
    /\ now \in 0..MaxClock
    /\ job_max_retries \in 0..MaxRetriesCfg
    /\ pc = "poll"
    /\ job = NULL
    /\ result = NULL
    /\ job_error = NULL
    /\ threads = NoThreads
    /\ cancelled = FALSE
    /\ attempts = [j \in DOMAIN jobs |-> IF jobs[j].started_at = NULL THEN 0 ELSE 1]
    /\ health = "idle"
    /\ boot = "initialize"
    /\ deleted = NULL
    /\ report_in_progress = FALSE
    /\ requests = <<>>

\* storage = ReportStorage(); await storage.initialize(): CREATE TABLE / INDEX
\* IF NOT EXISTS leave existing rows as they are
StorageInitialize ==
    /\ boot = "initialize"
    /\ boot' = "cleanup"
    /\ UNCHANGED <<jobs, reports, now, job_max_retries, pc, job, result,
                   job_error, threads, cancelled, attempts, trigger,
                   health, deleted>>

\* mutant: a failing initialize is ignored and the application serves
StorageInitializeFailsDegraded ==
    /\ boot = "initialize"
    /\ boot' = "serving"
    /\ UNCHANGED <<jobs, reports, now, job_max_retries, pc, job, result,
                   job_error, threads, cancelled, attempts, trigger,
                   health, deleted>>

\* storage.initialize() raises: nothing in lifespan catches it
StorageInitializeFails ==
    /\ boot = "initialize"
    /\ boot' = "aborted"
    /\ UNCHANGED <<jobs, reports, now, job_max_retries, pc, job, result,
                   job_error, threads, cancelled, attempts, trigger,
                   health, deleted>>

\* deleted = await storage.cleanup_old_reports()
StartupSweep ==
    /\ boot = "cleanup"
    /\ reports' = cleanup_old_reports(reports, now).reports
    /\ deleted' = Some(cleanup_old_reports(reports, now).deleted_count)
    /\ boot' = "agent"
    /\ UNCHANGED <<jobs, now, job_max_retries, pc, job, result, job_error,
                   threads, cancelled, attempts, trigger,
                   health>>

\* storage.cleanup_old_reports() raises before its commit
StartupSweepFails ==
    /\ boot = "cleanup"
    /\ boot' = "aborted"
    /\ UNCHANGED <<jobs, reports, now, job_max_retries, pc, job, result,
                   job_error, threads, cancelled, attempts, trigger,
                   health, deleted>>

\* agent = K8sWatchdogAgent(); yield
AgentInit ==
    /\ boot = "agent"
    /\ boot' = "serving"
    /\ UNCHANGED <<jobs, reports, now, job_max_retries, pc, job, result,
                   job_error, threads, cancelled, attempts, trigger,
                   health, deleted>>

\* K8sWatchdogAgent() raises
AgentInitFails ==
    /\ boot = "agent"
    /\ boot' = "aborted"
    /\ UNCHANGED <<jobs, reports, now, job_max_retries, pc, job, result,
                   job_error, threads, cancelled, attempts, trigger,
                   health, deleted>>

BootNext ==
    \/ StorageInitialize
    \/ StorageInitializeFails
    \/ StartupSweep
    \/ StartupSweepFails
    \/ AgentInit
    \/ AgentInitFails
    \/ HealthRequest
    \/ HealthCheck

\* The start-up sequence of the application over the database it finds.
BootSpec == BootInit /\ [][BootNext]_vars

\* The analysis in detail.  generate_weekly_report calls
\* self.anthropic.messages.create and repeats
\* `while response.stop_reason == "tool_use"`: it executes the requested
\* tools (a failing tool becomes an error result, never an exception) and
\* calls messages.create again.  Neither call is given a timeout, the loop
\* counts no turns, and process_report_generation runs the coroutine with
\* loop.run_until_complete without asyncio.wait_for: settings.claude_timeout
\* and settings.claude_max_turns are read nowhere.

\* response.stop_reason == "tool_use": the loop body is entered
ExecToolUse ==
    \E j \in DOMAIN threads :
        /\ threads[j].pc = "analysis"
        /\ threads' = SetThread(threads, j, [threads[j] EXCEPT !.pc = "tool_use"])
        /\ UNCHANGED <<app, jobs, reports, now, job_max_retries, pc, job, result,
                       job_error, cancelled, attempts>>

\* the tool results are appended and messages.create is called again
ExecToolResults ==
    \E j \in DOMAIN threads :
        /\ threads[j].pc = "tool_use"
        /\ threads' = SetThread(threads, j, [threads[j] EXCEPT !.pc = "analysis"])
        /\ UNCHANGED <<app, jobs, reports, now, job_max_retries, pc, job, result,
                       job_error, cancelled, attempts>>

\* a messages.create call that never returns: nothing in the code ends it,
\* so the thread has no further step
ExecAnalysisHangs ==
    \E j \in DOMAIN threads :
        /\ threads[j].pc = "analysis"
        /\ threads' = SetThread(threads, j, [threads[j] EXCEPT !.pc = "hung"])
        /\ UNCHANGED <<app, jobs, reports, now, job_max_retries, pc, job, result,
                       job_error, cancelled, attempts>>

AnalysisTurns ==
    \/ ExecToolUse
    \/ ExecToolResults
    \/ ExecAnalysisHangs

HangNext == Next \/ AnalysisTurns

\* The worker and the executor threads are scheduled as in FairSpec; the
\* answer of the analysis service (final, tool use, error, none) stays free.
HangSpec ==
    /\ Init
    /\ [][HangNext]_vars
    /\ WF_vars(Worker)
    /\ WF_vars(Executor \/ AnalysisTurns)

\* ================================================ direct trigger (main.py)
\* POST /report and the background task it schedules.  trigger_report has
\* no await, so its test of report_in_progress, add_task and its return are
\* one step of the event loop; the response is sent to the client after the
\* handler has returned, and the background task starts after the response
\* has been sent.  generate_and_send_report tests and sets
\* report_in_progress without an await in between, suspends in the analysis,
\* in save_report and in send_html_report, and its handlers and its finally
\* (agent.cleanup() suspends nowhere) run in one step.

\* a request: reply is what trigger_report returned or raised, answer what
\* the client has received, outcome the dict returned by the background task
Request(reply) ==
    [pc |-> "respond", reply |-> reply, answer |-> NULL, outcome |-> NULL,
     report_id |-> NULL]

\* the dicts returned by generate_and_send_report (timing and size left out)
Skipped == [status |-> "skipped", reason |-> "already_in_progress"]
ErrorOutcome(e) == [status |-> "error", error |-> e.msg, error_type |-> e.kind]

\* requests whose background task is inside the try of
\* generate_and_send_report
InBody == {r \in DOMAIN requests :
               requests[r].pc \in {"analysis", "persist", "deliver"}}

\* a client sends POST /report: trigger_report raises HTTPException(409) or
\* schedules generate_and_send_report and returns "accepted"
TriggerReport ==
    /\ boot = "serving"
    /\ Len(requests) < MaxRequests
    /\ requests' = Append(requests,
                          Request(IF report_in_progress THEN "conflict"
                                                        ELSE "accepted"))
    /\ UNCHANGED <<jobs, reports, now, job_max_retries, pc, job, result,
                   job_error, threads, cancelled, attempts, health, boot,
                   deleted, report_in_progress>>

\* the response reaches the client; an accepted request's background task
\* is run next
SendResponse ==
    \E r \in DOMAIN requests :
        /\ requests[r].pc = "respond"
        /\ requests' = [requests EXCEPT
                           ![r].answer = Some(requests[r].reply),
                           ![r].pc = IF requests[r].reply = "accepted"
                                     THEN "scheduled" ELSE "finished"]
        /\ UNCHANGED <<jobs, reports, now, job_max_retries, pc, job, result,
                       job_error, threads, cancelled, attempts, health, boot,
                       deleted, report_in_progress>>

\* mutant: a call skipped by the guard leaves through the finally
GenerateGuardSkipResets ==
    \E r \in DOMAIN requests :
        /\ requests[r].pc = "scheduled"
        /\ IF report_in_progress
           THEN /\ requests' = [requests EXCEPT ![r].pc = "finished",
                                                ![r].outcome = Some(Skipped)]
                /\ report_in_progress' = FALSE
           ELSE /\ requests' = [requests EXCEPT ![r].pc = "analysis"]
                /\ report_in_progress' = TRUE
        /\ UNCHANGED <<jobs, reports, now, job_max_retries, pc, job, result,
                       job_error, threads, cancelled, attempts, health, boot,
                       deleted>>

\* `if report_in_progress: return {"status": "skipped", ...}`;
\* `report_in_progress = True`
GenerateGuard ==
    \E r \in DOMAIN requests :
        /\ requests[r].pc = "scheduled"
        /\ IF report_in_progress
           THEN /\ requests' = [requests EXCEPT ![r].pc = "finished",
                                                ![r].outcome = Some(Skipped)]
                /\ UNCHANGED report_in_progress
           ELSE /\ requests' = [requests EXCEPT ![r].pc = "analysis"]
                /\ report_in_progress' = TRUE
        /\ UNCHANGED <<jobs, reports, now, job_max_retries, pc, job, result,
                       job_error, threads, cancelled, attempts, health, boot,
                       deleted>>

\* mutant: the exception leaves generate_and_send_report through the finally
GenerateExceptEscapes(r, e) ==
    /\ requests' = [requests EXCEPT ![r].pc = "raised"]
    /\ report_in_progress' = FALSE

\* `except Exception as e: return {"status": "error", ...}` and the finally
GenerateExcept(r, e) ==
    /\ requests' = [requests EXCEPT ![r].pc = "finished",
                                    ![r].outcome = Some(ErrorOutcome(e))]
    /\ report_in_progress' = FALSE

\* report_html, metadata = await agent.generate_weekly_report()
GenerateAnalysis ==
    \E r \in DOMAIN requests :
        /\ requests[r].pc = "analysis"
        /\ \/ /\ requests' = [requests EXCEPT ![r].pc = "persist"]
              /\ UNCHANGED report_in_progress
           \/ \E e \in AnalysisErrors : GenerateExcept(r, e)
        /\ UNCHANGED <<jobs, reports, now, job_max_retries, pc, job, result,
                       job_error, threads, cancelled, attempts, health, boot,
                       deleted>>

\* report_id = await storage.save_report(report_html)
GeneratePersist ==
    \E r \in DOMAIN requests :
        /\ requests[r].pc = "persist"
        /\ \/ /\ reports' = save_report(reports, "html", now)
              /\ requests' = [requests EXCEPT
                                 ![r].pc = "deliver",
                                 ![r].report_id = Some(Len(reports'))]
              /\ UNCHANGED report_in_progress
           \/ /\ GenerateExcept(r, StoreError("save_report"))
              /\ UNCHANGED reports
        /\ UNCHANGED <<jobs, now, job_max_retries, pc, job, result,
                       job_error, threads, cancelled, attempts, health, boot,
                       deleted>>

\* await reporter.send_html_report(...); `return {"status": "success", ...}`
\* and the finally
GenerateDeliver ==
    \E r \in DOMAIN requests :
        /\ requests[r].pc = "deliver"
        /\ \/ /\ requests' = [requests EXCEPT
                                 ![r].pc = "finished",
                                 ![r].outcome =
                                     Some(SuccessResult(Val(requests[r].report_id)))]
              /\ report_in_progress' = FALSE
           \/ \E e \in DeliverErrors : GenerateExcept(r, e)
        /\ UNCHANGED <<jobs, reports, now, job_max_retries, pc, job, result,
                       job_error, threads, cancelled, attempts, health, boot,
                       deleted>>

TriggerNext ==
    \/ TriggerReport
    \/ SendResponse
    \/ GenerateGuard
    \/ GenerateAnalysis
    \/ GeneratePersist
    \/ GenerateDeliver

\* The application of main.py after start-up: requests and their background
\* tasks interleave at the suspension points.
TriggerSpec == Init /\ [][TriggerNext]_vars

FaultNext == Next \/ StoreFaults \/ Cancel \/ Crash

FaultSpec == Init /\ [][FaultNext]_vars

\* =============================================================== claims
Processing == {j \in DOMAIN jobs : jobs[j].status = "processing"}
NeverDequeued(j) ==
    /\ jobs[j].status = "pending"
    /\ jobs[j].retry_count = 0
    /\ jobs[j].started_at = NULL
    /\ attempts[j] = 0

\* C1 (retry bound).  No job is executed more than job_max_retries + 1
\* times; a job waiting for a retry has failed in every one of its attempts
\* and has used at most job_max_retries of them; a job is failed only after
\* exactly job_max_retries + 1 executions, with retry_count equal to
\* job_max_retries and a non-empty error text.
C1_RetryBound ==
    \A j \in DOMAIN jobs :
        /\ attempts[j] <= job_max_retries + 1
        /\ jobs[j].status = "pending" =>
              /\ attempts[j] = jobs[j].retry_count
              /\ jobs[j].retry_count <= job_max_retries
        /\ jobs[j].status = "failed" =>
              /\ attempts[j] = job_max_retries + 1
              /\ jobs[j].retry_count = job_max_retries
              /\ jobs[j].error # NULL
              /\ Len(Val(jobs[j].error)) > 0

\* C1 witness: with retries configured, a job has failed for good after its
\* retries and no thread of it is left.
C1_Witness ==
    \E j \in DOMAIN jobs :
        /\ job_max_retries >= 1
        /\ jobs[j].status = "failed"
        /\ attempts[j] = job_max_retries + 1
        /\ j \notin DOMAIN threads

C2_Allowed(j) ==
    LET o == jobs[j]
        n == jobs'[j]
    IN  \/ /\ o.status = "pending" /\ n.status = "processing"
           /\ n.retry_count = o.retry_count
           /\ pc = "mark" /\ Val(job).id = j
        \/ /\ o.status = "processing" /\ n.status = "completed"
           /\ n.retry_count = o.retry_count
           /\ pc = "complete" /\ result # NULL /\ Val(job).id = j
        \/ /\ o.status = "processing" /\ n.status = "pending"
           /\ n.retry_count = o.retry_count + 1
           /\ o.retry_count < job_max_retries
           /\ pc = "except" /\ Val(job).id = j
           /\ Val(job_error).raised_by = "process_job"
        \/ /\ o.status = "processing" /\ n.status = "failed"
           /\ n.retry_count = o.retry_count
           /\ o.retry_count >= job_max_retries
           /\ pc = "except" /\ Val(job).id = j
           /\ Val(job_error).raised_by = "process_job"

\* C2 (job state machine).  Every step that changes the status or the
\* retry_count of a job is one of: pending -> processing at the dequeue of
\* that job, processing -> completed after its executor returned,
\* processing -> pending with retry_count + 1 after its executor raised
\* while retry_count < job_max_retries, processing -> failed after its
\* executor raised while retry_count >= job_max_retries.
C2_StateMachine ==
    [][\A j \in DOMAIN jobs :
          (jobs'[j].status # jobs[j].status
             \/ jobs'[j].retry_count # jobs[j].retry_count) => C2_Allowed(j)]_vars

\* C2 witness: one job was retried and then completed, another one failed.
C2_Witness ==
    /\ \E j \in DOMAIN jobs : jobs[j].status = "completed" /\ jobs[j].retry_count > 0
    /\ \E k \in DOMAIN jobs : jobs[k].status = "failed"

\* C3 (at most one processing).  With one worker, no crash and no failing
\* Store call, at most one job has stored status processing.
C3_AtMostOneProcessing == Cardinality(Processing) <= 1

\* C3 witness: the executor is running for the one processing job while
\* another job is pending and some job has already been retried.
C3_Witness ==
    /\ Cardinality(Processing) = 1
    /\ Running # {}
    /\ \E k \in DOMAIN jobs : jobs[k].status = "pending"
    /\ \E k \in DOMAIN jobs : jobs[k].retry_count > 0

\* C4 (FIFO dequeue).  The job get_next_job has just returned has the
\* smallest created_at of all pending jobs, and no job with a later
\* created_at has been dequeued before it.
C4_FifoDequeue ==
    pc = "mark" =>
        \A k \in DOMAIN jobs :
            /\ jobs[k].status = "pending" =>
                  jobs[Val(job).id].created_at <= jobs[k].created_at
            /\ jobs[k].created_at > jobs[Val(job).id].created_at =>
                  NeverDequeued(k)

\* C4 witness: a job is dequeued for the first time while a job with a later
\* created_at is pending.
C4_Witness ==
    /\ pc = "mark"
    /\ Val(job).retry_count = 0
    /\ \E k \in DOMAIN jobs :
          /\ jobs[k].status = "pending"
          /\ jobs[k].created_at > jobs[Val(job).id].created_at

\* C5 (retry preserves order).  created_at never runs against the order of
\* enqueueing, also after retries, and get_next_job returns no job while a
\* job enqueued before it is pending: a retried job goes before every job
\* enqueued after it.
C5_RetryPreservesOrder ==
    /\ \A i, k \in DOMAIN jobs :
          i < k => jobs[i].created_at <= jobs[k].created_at
    /\ pc = "mark" =>
          \A k \in DOMAIN jobs :
              (k < Val(job).id) => jobs[k].status # "pending"

\* C5 witness: a retried job is dequeued again while a job enqueued later,
\* at a later clock reading, is pending.
C5_Witness ==
    /\ pc = "mark"
    /\ Val(job).retry_count > 0
    /\ \E k \in DOMAIN jobs :
          /\ k > Val(job).id
          /\ jobs[k].status = "pending"
          /\ jobs[k].created_at > jobs[Val(job).id].created_at

\* C6 (no parallel job execution).  At most one executor invocation is in
\* flight, and while one is in flight the outcome of every earlier
\* invocation is recorded: no other job is processing, and the running job
\* has been retried once for each of its earlier invocations.
C6_NoParallelExecution ==
    /\ Cardinality(Running) <= 1
    /\ \A j \in Running :
          /\ \A k \in DOMAIN jobs : k # j => jobs[k].status # "processing"
          /\ attempts[j] = jobs[j].retry_count + 1

\* C6 witness: an executor is in flight after an earlier invocation for
\* another job and an earlier one for the same job.
C6_Witness ==
    \E j \in Running :
        /\ attempts[j] > 1
        /\ \E k \in DOMAIN jobs : k # j /\ attempts[k] > 0

\* C7 (processing is marked before execution).  From the start of an
\* executor invocation for a job until the worker has taken its outcome,
\* the job's stored status is processing.
C7_ProcessingWhileExecuting ==
    \A j \in DOMAIN threads : jobs[j].status = "processing"

\* C7 witness: the executor is past the analysis, the worker awaits it.
C7_Witness ==
    /\ pc = "exec"
    /\ \E j \in Running : threads[j].pc = "deliver"

\* C8 (job errors are captured).  When the awaited executor has raised, the
\* loop's next step binds that exception in the inner handler; the handler's
\* step leaves the job pending with retry_count + 1 or failed with the error
\* text "<kind>: <message>", and the loop polls again.
C8_JobErrorsCaptured ==
    [][/\ (pc = "exec" /\ pc' # "exec") =>
              \/ threads[Val(job).id].pc = "returned"
              \/ /\ threads[Val(job).id].pc = "raised"
                 /\ pc' = "except"
                 /\ job_error' = threads[Val(job).id].exc
       /\ (pc = "except" /\ pc' # "except") =>
              LET j == Val(job).id
                  e == Val(job_error)
              IN /\ pc' = "poll"
                 /\ \/ /\ jobs'[j].status = "pending"
                       /\ jobs'[j].retry_count = jobs[j].retry_count + 1
                    \/ /\ jobs'[j].status = "failed"
                       /\ jobs'[j].error = Some(<<e.kind, ": ">> \o e.msg)]_vars

\* C8 witness: the handler has run and the loop polls again; a job is failed
\* with the text of an exception whose message is empty.
C8_Witness ==
    /\ \E j \in DOMAIN jobs :
          /\ jobs[j].status = "failed"
          /\ jobs[j].error = Some(<<"TimeoutError", ": ">>)
    /\ pc = "poll"

\* C9 (control-loop failures are distinct from job failures), as claimed:
\* the inner handler, which retries or fails the job, only ever handles an
\* exception raised by the executor, never one raised by a Queue call.
C9_QueueFailureIsNotJobFailure ==
    job_error # NULL => Val(job_error).raised_by = "process_job"

\* C10 (the loop ends only on cancellation).  The loop has ended only if the
\* worker task was cancelled.
C10_EndsOnlyOnCancel == pc = "terminated" => cancelled

\* C10 witness: mark_failed raised after the executor raised; the loop is
\* pausing, not ended, and the job is left processing.
C10_Witness ==
    /\ pc = "sleep_err"
    /\ ~cancelled
    /\ Processing # {}

\* C11 (cancellation is propagated, not swallowed).  The step that cancels
\* the worker task, at whatever await the loop is suspended, ends the loop
\* and changes no job; from then on, until the process is started again, the
\* loop stays ended: it holds no job, it dequeues none and the status and
\* retry_count of every job stay as they are.
C11_CancelPropagates ==
    [][cancelled' =>
          /\ pc' = "terminated"
          /\ job' = NULL
          /\ \A j \in DOMAIN jobs :
                /\ jobs'[j].status = jobs[j].status
                /\ jobs'[j].retry_count = jobs[j].retry_count]_vars

\* C11 witness: the task was cancelled and the loop has ended while a job is
\* pending and another one is processing, its executor still running.
C11_Witness ==
    /\ cancelled
    /\ pc = "terminated"
    /\ PendingIds(jobs) # {}
    /\ \E j \in Running : jobs[j].status = "processing"

\* C12 (cancellation does not interrupt an in-flight job).  Cancelling the
\* worker task leaves every executor thread as it is; after the cancellation
\* the executor goes on step by step to its return or its exception, its
\* outcome is never taken by the worker, and its job stays processing.
C12_CancelLeavesExecutor ==
    [][cancelled' =>
          \A j \in DOMAIN threads :
              /\ j \in DOMAIN threads'
              /\ ~cancelled => threads'[j] = threads[j]
              /\ threads[j].pc \in {"returned", "raised"} =>
                    threads'[j] = threads[j]
              /\ jobs'[j].status = "processing"
              /\ jobs'[j].result = NULL
              /\ jobs'[j].retry_count = jobs[j].retry_count]_vars

\* C12 witness: the worker task is cancelled, the executor of a job has run
\* all its steps and returned, and the job is still processing with no
\* completion recorded.
C12_Witness ==
    /\ cancelled
    /\ \E j \in DOMAIN threads :
          /\ threads[j].pc = "returned"
          /\ threads[j].steps = <<"analysis", "persist", "deliver">>
          /\ jobs[j].status = "processing"
          /\ jobs[j].completed_at = NULL

\* C13 (executor cleanup on every exit path), as claimed: every attempt that
\* has ended, by a return or by an exception, and in which the analysis
\* collaborator (the agent) was constructed, has run the agent's cleanup.
C13_CleanupOnEveryExit ==
    \A j \in DOMAIN threads :
        (threads[j].agent /\ threads[j].pc \in {"returned", "raised"}) =>
            threads[j].cleaned

StepOrder == <<"analysis", "persist", "deliver">>
IsPrefix(s, t) == Len(s) <= Len(t) /\ \A i \in 1..Len(s) : s[i] = t[i]

\* C14 (executor step order and abort).  The steps that have succeeded in an
\* attempt are always a prefix of analysis, persist, deliver; a report row is
\* written only by the persist step of an attempt whose analysis succeeded,
\* and the attempt holds a report id exactly when its persist step
\* succeeded; an attempt that raised did not complete all three steps, has
\* no result and runs no further step; an attempt returns, with the success
\* result for its own report, only after all three steps succeeded in it;
\* the worker takes a raised attempt as a failure (inner handler) and only a
\* returned one as a success.
C14_StepOrderAndAbort ==
    [][/\ \A j \in DOMAIN threads' :
             LET th == threads'[j] IN
             /\ IsPrefix(th.steps, StepOrder)
             /\ (th.report_id # NULL) <=> (Len(th.steps) >= 2)
             /\ th.pc = "returned" =>
                   /\ th.steps = StepOrder
                   /\ th.result = Some(SuccessResult(Val(th.report_id)))
                   /\ th.exc = NULL
             /\ th.pc = "raised" =>
                   /\ th.steps # StepOrder
                   /\ th.result = NULL
                   /\ th.exc # NULL
       /\ \A j \in DOMAIN threads :
             (threads[j].pc = "raised" /\ j \in DOMAIN threads') =>
                 threads'[j] = threads[j]
       /\ reports' # reports =>
             /\ Len(reports') = Len(reports) + 1
             /\ \E j \in DOMAIN threads :
                   /\ threads[j].steps = <<"analysis">>
                   /\ threads'[j].steps = <<"analysis", "persist">>
                   /\ threads'[j].report_id = Some(Len(reports'))
       /\ (pc = "exec" /\ pc' = "complete") =>
             /\ threads[Val(job).id].pc = "returned"
             /\ threads[Val(job).id].steps = StepOrder
             /\ result' = threads[Val(job).id].result
       /\ (pc = "exec" /\ pc' = "except") =>
             /\ threads[Val(job).id].pc = "raised"
             /\ job_error' = threads[Val(job).id].exc]_vars

\* C14 witness: the persist step of an attempt failed after its analysis
\* succeeded: the attempt raised, no report row exists and nothing was
\* delivered; the worker is about to take the failure.
C14_Witness ==
    /\ pc = "exec"
    /\ reports = <<>>
    /\ \E j \in DOMAIN threads :
          /\ threads[j].pc = "raised"
          /\ threads[j].steps = <<"analysis">>
          /\ threads[j].exc = Some(StoreError("process_job"))

\* C15 (every job eventually reaches a terminal state).  With the worker
\* loop and the executor running on, no failing Store call, no cancellation
\* and no crash, every enqueued job is eventually completed or failed,
\* whatever the executor's outcomes and whatever is enqueued meanwhile.
C15_EventuallyTerminal ==
    \A j \in 1..MaxJobs :
        (j \in DOMAIN jobs) ~>
            (j \in DOMAIN jobs /\ jobs[j].status \in {"completed", "failed"})

\* C15 witness: a job is failed after a retry and a job enqueued after it is
\* completed.
C15_Witness ==
    \E j, k \in DOMAIN jobs :
        /\ j < k
        /\ jobs[j].status = "failed"
        /\ jobs[j].retry_count > 0
        /\ jobs[k].status = "completed"

\* a processing job that the running worker loop does not hold
Stuck(j) ==
    /\ jobs[j].status = "processing"
    /\ job = NULL \/ Val(job).id # j

\* C16 (no automatic recovery of stuck jobs).  A processing job that the
\* worker loop does not hold (after a crash: the loop that held it is gone)
\* stays exactly as it is: get_next_job never returns it, no executor is
\* started for it and its row never changes; and whenever the loop dequeues,
\* it gets a pending job.
C16_StuckStaysStuck ==
    [][/\ \A j \in DOMAIN jobs :
             Stuck(j) =>
                 /\ jobs'[j] = jobs[j]
                 /\ job' = NULL \/ Val(job').id # j
                 /\ attempts'[j] = attempts[j]
                 /\ j \notin DOMAIN threads'
       /\ (pc = "poll" /\ pc' = "mark") =>
             jobs[Val(job').id].status = "pending"]_vars

\* C16 witness: a job was left processing by a crash during its execution
\* and the restarted worker has completed the job enqueued after it.
C16_Witness ==
    \E j, k \in DOMAIN jobs :
        /\ j < k
        /\ Stuck(j)
        /\ attempts[j] = 1
        /\ jobs[k].status = "completed"
        /\ pc = "poll"

\* a stored payload text that is present, not empty and not the JSON text
\* of any value
Malformed(o) == o # NULL /\ Val(o) # <<>> /\ ~(Len(Val(o)) = 2 /\ Val(o)[1] = "json")

\* C17 (a malformed payload does not stall the queue).  When the loop polls
\* and the oldest pending job's stored payload is not valid JSON, the
\* get_next_job call returns that job, with payload none, and the loop goes
\* on to mark it processing; a job held by the loop whose stored payload is
\* the JSON text of a value carries that value; every job, whatever its
\* payload, is executed at most job_max_retries + 1 times.
C17_MalformedPayloadDequeued ==
    [][/\ (pc = "poll" /\ pc' # "poll" /\ PendingIds(jobs) # {}) =>
              LET i == Val(get_pending_job(jobs)).id IN
              /\ pc' = "mark"
              /\ Val(job').id = i
              /\ jobs' = jobs
              /\ Malformed(jobs[i].payload) => Val(job').payload = NULL
              /\ (jobs[i].payload = Some(json_dumps(UrgentDict))) =>
                    Val(job').payload = Some(UrgentDict)
       /\ \A j \in DOMAIN jobs : attempts[j] <= job_max_retries + 1]_vars

\* C17 witness: a job with a malformed payload has been executed and
\* completed, and so has the job enqueued behind it.
C17_Witness ==
    \E j, k \in DOMAIN jobs :
        /\ j < k
        /\ Malformed(jobs[j].payload)
        /\ jobs[j].status = "completed"
        /\ jobs[k].status = "completed"

\* C18 (a job inserted with no payload is dequeued with payload None).  In
\* every reachable state, insert_job(type, None) stores a row whose payload
\* is none (not the empty string); if no other job is pending,
\* get_pending_job and get_next_job then return that job with payload none;
\* and a job the loop has dequeued from a row without payload has payload
\* none.
C18_NoPayloadIsNone ==
    /\ \A ty \in JobTypes :
          LET tbl == insert_job(jobs, ty, NULL, now)
              id == Len(tbl)
          IN /\ id = Len(jobs) + 1
             /\ tbl[id].payload = NULL
             /\ tbl[id].type = ty
             /\ PendingIds(jobs) = {} =>
                   /\ get_pending_job(tbl) # NULL
                   /\ Val(get_pending_job(tbl)).id = id
                   /\ Val(get_pending_job(tbl)).payload = NULL
                   /\ get_next_job(tbl) # NULL
                   /\ Val(get_next_job(tbl)).id = id
                   /\ Val(get_next_job(tbl)).payload = NULL
    /\ (pc = "mark" /\ jobs[Val(job).id].payload = NULL) =>
          Val(job).payload = NULL

\* C18 witness: the loop has dequeued a job stored without payload, with
\* payload none, while a job with a payload text is stored behind it.
C18_Witness ==
    /\ pc = "mark"
    /\ jobs[Val(job).id].payload = NULL
    /\ Val(job).payload = NULL
    /\ \E k \in DOMAIN jobs : k > Val(job).id /\ jobs[k].payload # NULL

\* C19 (retry_count is monotone and bounded).  A new job row has
\* retry_count 0; no step decreases the retry_count of a job, and a step
\* that changes it adds exactly one; retry_count never exceeds
\* job_max_retries, also when Store calls fail, the worker is cancelled or
\* the process is started again.
C19_RetryCountMonotoneBounded ==
    [][/\ \A j \in DOMAIN jobs' :
             /\ jobs'[j].retry_count <= job_max_retries
             /\ j \notin DOMAIN jobs => jobs'[j].retry_count = 0
       /\ \A j \in DOMAIN jobs :
             /\ j \in DOMAIN jobs'
             /\ jobs'[j].retry_count >= jobs[j].retry_count
             /\ jobs'[j].retry_count <= jobs[j].retry_count + 1]_vars

\* C19 witness: a job has been retried as often as allowed and is dequeued
\* once more.
C19_Witness ==
    /\ job_max_retries >= 1
    /\ pc = "dispatch"
    /\ jobs[Val(job).id].retry_count = job_max_retries
    /\ jobs[Val(job).id].status = "processing"

\* C20 (failed is permanent and only reached when retries are exhausted), as
\* claimed: a job becomes failed only in the handler of an exception raised
\* by its executor, with retry_count >= job_max_retries; a completed or
\* failed job keeps its status, is not dequeued again and no executor is
\* started for it again.
C20_FailedOnlyWhenExhausted ==
    [][\A j \in DOMAIN jobs :
          /\ (jobs[j].status # "failed" /\ jobs'[j].status = "failed") =>
                /\ pc = "except"
                /\ Val(job).id = j
                /\ jobs[j].retry_count >= job_max_retries
                /\ Val(job_error).raised_by = "process_job"
          /\ jobs[j].status \in {"completed", "failed"} =>
                /\ jobs'[j].status = jobs[j].status
                /\ job' = NULL \/ Val(job').id # j
                /\ attempts'[j] = attempts[j]
                /\ j \notin DOMAIN threads']_vars

\* C21 (jobs are an append-only audit trail).  No step removes a job row:
\* every row stays under its id with its type, payload and created_at; a
\* step adds at most one row, and the new row's id is greater than every id
\* assigned before, hence unique; every id the worker loop or an executor
\* holds is the id of a stored row.
C21_AppendOnlyJobs ==
    [][/\ Len(jobs') >= Len(jobs)
       /\ Len(jobs') <= Len(jobs) + 1
       /\ \A j \in DOMAIN jobs :
             /\ j \in DOMAIN jobs'
             /\ jobs'[j].type = jobs[j].type
             /\ jobs'[j].payload = jobs[j].payload
             /\ jobs'[j].created_at = jobs[j].created_at
       /\ \A j \in DOMAIN jobs' :
             j \notin DOMAIN jobs =>
                 /\ \A i \in DOMAIN jobs : i < j
                 /\ j \notin DOMAIN threads
                 /\ job # NULL => Val(job).id < j
       /\ job' # NULL => Val(job').id \in DOMAIN jobs'
       /\ DOMAIN threads' \subseteq DOMAIN jobs']_vars

\* C21 witness: a completed job and a failed job are both still stored
\* after the worker has finished with them, and the table is full.
C21_Witness ==
    /\ Len(jobs) = MaxJobs
    /\ \E j, k \in DOMAIN jobs :
          /\ jobs[j].status = "completed"
          /\ jobs[k].status = "failed"
    /\ pc = "sleep_poll"

\* C22 (enqueue is always possible and only adds).  In every reachable
\* state, also while an executor runs and while jobs of the same type are
\* pending or processing, enqueue with any type and payload yields the table
\* with exactly one more row, which is pending with retry_count 0 and no
\* start, completion, result or error, and with every existing row
\* unchanged; the enqueue step is enabled whatever the worker and the
\* executor are doing.
C22_EnqueueOnlyAdds ==
    /\ \A ty \in JobTypes, pl \in EnqueuePayloads \cup {Some(UrgentDict)} :
          LET tbl == enqueue(jobs, ty, pl, now)
              id == Len(jobs) + 1
          IN /\ Len(tbl) = id
             /\ tbl[id].type = ty
             /\ tbl[id].status = "pending"
             /\ tbl[id].retry_count = 0
             /\ tbl[id].created_at = now
             /\ tbl[id].started_at = NULL
             /\ tbl[id].completed_at = NULL
             /\ tbl[id].result = NULL
             /\ tbl[id].error = NULL
             /\ \A j \in DOMAIN jobs : tbl[j] = jobs[j]
    /\ Len(jobs) < MaxJobs => ENABLED Enqueue

\* C22 witness: a second generate_report job was enqueued and is pending
\* while the first one is processing and its executor runs.
C22_Witness ==
    \E j \in Running :
        /\ jobs[j].type = "generate_report"
        /\ jobs[j].status = "processing"
        /\ threads[j].pc = "persist"
        /\ \E k \in DOMAIN jobs :
              /\ k > j
              /\ jobs[k].type = "generate_report"
              /\ jobs[k].status = "pending"
              /\ jobs[k].retry_count = 0

\* the statuses update_job_status is called with
UpdateStatuses == {"processing", "completed", "failed"}

\* C23 (timestamps follow the status).  In every reachable state, for every
\* job and every status among processing, completed and failed,
\* update_job_status at a later clock reading writes started_at exactly when
\* the status is processing and completed_at exactly when it is completed or
\* failed, and leaves the other timestamp, the created_at and every other
\* row as they are; and in every reachable state completed_at is set exactly
\* for the completed and failed jobs, and started_at is set for every
\* processing, completed or failed job.
C23_TimestampsFollowStatus ==
    /\ \A id \in DOMAIN jobs, st \in UpdateStatuses :
          LET t == now + 1
              tbl == update_job_status(jobs, id, st, NULL, NULL, t)
          IN /\ tbl[id].status = st
             /\ tbl[id].started_at =
                   (IF st = "processing" THEN Some(t) ELSE jobs[id].started_at)
             /\ tbl[id].completed_at =
                   (IF st \in {"completed", "failed"} THEN Some(t)
                    ELSE jobs[id].completed_at)
             /\ tbl[id].created_at = jobs[id].created_at
             /\ \A k \in DOMAIN jobs : k # id => tbl[k] = jobs[k]
    /\ \A j \in DOMAIN jobs :
          /\ (jobs[j].completed_at # NULL) <=>
                 (jobs[j].status \in {"completed", "failed"})
          /\ jobs[j].status \in {"processing", "completed", "failed"} =>
                 jobs[j].started_at # NULL

\* C23 witness: a retried job is pending again with its started_at set and
\* no completed_at, while another job is completed with both set.
C23_Witness ==
    \E j, k \in DOMAIN jobs :
        /\ jobs[j].status = "pending"
        /\ jobs[j].retry_count > 0
        /\ jobs[j].started_at # NULL
        /\ jobs[j].completed_at = NULL
        /\ jobs[k].status = "completed"
        /\ jobs[k].started_at # NULL
        /\ jobs[k].completed_at # NULL

\* C24 (increment_job_retry).  In every reachable state and for every
\* stored job, increment_job_retry leaves that job pending with its
\* retry_count increased by exactly one and returns the new count; the
\* job's type, payload, created_at and every other column, and every other
\* row, are unchanged.
C24_IncrementJobRetry ==
    \A id \in DOMAIN jobs :
        LET tbl == increment_job_retry(jobs, id, now + 1) IN
        /\ DOMAIN tbl = DOMAIN jobs
        /\ tbl[id].status = "pending"
        /\ tbl[id].retry_count = jobs[id].retry_count + 1
        /\ increment_job_retry_returns(jobs, id, now + 1) = jobs[id].retry_count + 1
        /\ tbl[id] = [jobs[id] EXCEPT !.status = "pending",
                                      !.retry_count = jobs[id].retry_count + 1]
        /\ \A k \in DOMAIN jobs : k # id => tbl[k] = jobs[k]

\* C24 witness: the worker has requeued a failed attempt through
\* increment_job_retry while another job is stored: the job is pending with
\* retry_count 1 and the other job is untouched.
C24_Witness ==
    \E j, k \in DOMAIN jobs :
        /\ j # k
        /\ jobs[j].status = "pending"
        /\ jobs[j].retry_count = 1
        /\ attempts[j] = 1
        /\ NeverDequeued(k)
        /\ pc = "poll"

Expired(r, t) ==
    r.cluster_name = cluster_name /\ r.generated_at < t - retention_weeks

\* C26 (idempotent cleanup).  For every reachable reports table and every
\* clock reading, a second cleanup_old_reports call with the same cutoff
\* right after the first deletes 0 reports and leaves the table as the
\* first call left it; after the start-up sweep no stored report is past
\* the cutoff of that sweep.
C26_CleanupIdempotent ==
    /\ \A t \in 0..MaxClock :
          LET first == cleanup_old_reports(reports, t)
              second == cleanup_old_reports(first.reports, t)
          IN /\ second.deleted_count = 0
             /\ second.reports = first.reports
    /\ boot \in {"agent", "serving"} =>
          /\ cleanup_old_reports(reports, now).deleted_count = 0
          /\ cleanup_old_reports(reports, now).reports = reports

\* C26 witness: the start-up sweep has deleted every report it found, more
\* than one, and a second sweep now would delete none.
C26_Witness ==
    /\ boot = "agent"
    /\ deleted # NULL
    /\ Val(deleted) > 1
    /\ reports = <<>>
    /\ cleanup_old_reports(reports, now).deleted_count = 0

\* C27 (retention sweep scope).  The start-up sweep removes exactly the
\* reports of the active cluster generated before the cutoff (now minus the
\* retention) and records their number: every other report is kept, in its
\* order and unchanged, among them the reports of other clusters and the
\* reports generated at or after the cutoff; no job record changes.
C27_SweepScope ==
    [][(boot = "cleanup" /\ boot' = "agent") =>
          LET kept == {i \in DOMAIN reports : ~Expired(reports[i], now)}
              rank(i) == Cardinality({k \in kept : k <= i})
          IN /\ Len(reports') = Cardinality(kept)
             /\ \A i \in kept : reports'[rank(i)] = reports[i]
             /\ deleted' = Some(Len(reports) - Cardinality(kept))
             /\ \A i \in DOMAIN reports :
                   (reports[i].cluster_name # cluster_name
                      \/ reports[i].generated_at >= now - retention_weeks) =>
                       i \in kept
             /\ jobs' = jobs]_vars

\* C27 witness: the sweep has deleted one report and kept an equally old
\* report of another cluster and a report generated exactly at the cutoff,
\* with job records present.
C27_Witness ==
    /\ boot = "agent"
    /\ deleted = Some(1)
    /\ Len(jobs) > 1
    /\ \E i, k \in DOMAIN reports :
          /\ reports[i].cluster_name # cluster_name
          /\ reports[i].generated_at < now - retention_weeks
          /\ reports[k].cluster_name = cluster_name
          /\ reports[k].generated_at = now - retention_weeks

\* C28 (a fatal storage failure aborts start-up).  The application serves
\* only after initialize, the sweep and the agent construction have all
\* succeeded, in that order; once start-up has aborted it stays aborted,
\* performs no later start-up step (no sweep, no change of the tables) and
\* answers no request.
C28_FailedStartupNeverServes ==
    [][/\ boot = "aborted" =>
             /\ boot' = "aborted"
             /\ reports' = reports
             /\ jobs' = jobs
             /\ deleted' = deleted
             /\ health = "waiting" => health' = "waiting"
       /\ (boot' = "cleanup" /\ boot # "cleanup") => boot = "initialize"
       /\ (boot' = "agent" /\ boot # "agent") => boot = "cleanup"
       /\ (boot' = "serving" /\ boot # "serving") => boot = "agent"
       /\ (health = "waiting" /\ health' = "idle") => boot = "serving"
       /\ (boot' = "aborted" /\ boot = "initialize") => deleted' = NULL]_vars

\* C28 witness: initialize failed with expired reports in the database: the
\* start-up has aborted without the sweep and a request is left unanswered.
C28_Witness ==
    /\ boot = "aborted"
    /\ deleted = NULL
    /\ health = "waiting"
    /\ \E i \in DOMAIN reports : Expired(reports[i], now)

\* the text recorded for a job of an unregistered type
UnknownTypeError(t) == <<"ValueError", ": ", "Unknown job type: ", t>>

\* C29 (unknown job types fail).  A job whose type is not generate_report
\* never reaches report generation: its executor invocations construct no
\* agent and run no step, and each one raises the unknown-job-type error;
\* the job is never completed, and it ends failed, after
\* job_max_retries + 1 attempts, with that error recorded.
C29_UnknownTypesFail ==
    /\ [](\A j \in DOMAIN jobs :
             jobs[j].type # "generate_report" =>
                 /\ jobs[j].status # "completed"
                 /\ j \in DOMAIN threads =>
                       /\ threads[j].pc \in {"start", "raised"}
                       /\ ~threads[j].agent
                       /\ threads[j].steps = <<>>
                       /\ threads[j].report_id = NULL
                       /\ threads[j].pc = "raised" =>
                             threads[j].exc = Some(UnknownJobType(jobs[j].type))
                 /\ jobs[j].status = "failed" =>
                       /\ jobs[j].error = Some(UnknownTypeError(jobs[j].type))
                       /\ attempts[j] = job_max_retries + 1)
    /\ \A j \in 1..MaxJobs :
          (j \in DOMAIN jobs /\ jobs[j].type # "generate_report") ~>
              (/\ j \in DOMAIN jobs
               /\ jobs[j].status = "failed"
               /\ jobs[j].error = Some(UnknownTypeError(jobs[j].type)))

\* C29 witness: a send_digest job has failed for good after a retry, with
\* the unknown-job-type error recorded and no report written.
C29_Witness ==
    \E j \in DOMAIN jobs :
        /\ jobs[j].type = "send_digest"
        /\ jobs[j].status = "failed"
        /\ jobs[j].retry_count = 1
        /\ jobs[j].error = Some(UnknownTypeError("send_digest"))
        /\ reports = <<>>

\* C30 (hard timeout of the analysis).  Every executor invocation
\* eventually returns or raises, and the worker loop, once it awaits an
\* executor, eventually leaves that await.
C30_AnalysisBounded ==
    /\ \A j \in 1..MaxJobs :
          (j \in DOMAIN threads) ~>
              (j \notin DOMAIN threads \/ threads[j].pc \in {"returned", "raised"})
    /\ (pc = "exec") ~> (pc # "exec")

\* C31 (poll delay only when idle).  The loop enters the poll sleep only
\* from a get_next_job that found no pending job, and the 5 second sleep
\* only from a failed call of the loop itself (get_next_job,
\* mark_processing, mark_failed), which changes no row; the step that marks
\* a job completed, failed or pending again leads straight to the next
\* get_next_job, and a get_next_job that finds a pending job goes on to
\* mark it processing.
C31_PollDelayOnlyWhenIdle ==
    [][/\ (pc' = "sleep_poll" /\ pc # "sleep_poll") =>
              (pc = "poll" /\ PendingIds(jobs) = {} /\ job' = NULL)
       /\ (pc' = "sleep_err" /\ pc # "sleep_err") =>
              (pc \in {"poll", "mark", "except"} /\ jobs' = jobs)
       /\ (pc \in {"complete", "except"} /\ job # NULL
             /\ jobs'[Val(job).id] # jobs[Val(job).id]) => pc' = "poll"
       /\ (pc = "poll" /\ pc' \notin {"poll", "sleep_err", "terminated"}
             /\ PendingIds(jobs) # {}) => pc' = "mark"]_vars

\* C31 witness: with a backlog of two jobs, the first has been completed
\* and the loop already holds the second one, not having slept in between.
C31_Witness ==
    /\ pc = "mark"
    /\ Len(jobs) = 2
    /\ jobs[1].status = "completed"
    /\ Val(job).id = 2
    /\ jobs[2].status = "pending"

\* C32 (the trigger surface never surfaces execution errors).  A background
\* task is past its guard only if its request has been answered "accepted";
\* no task ends by raising; a task stopped by an exception of the analysis,
\* of save_report or of the delivery ends with the error outcome that names
\* the exception, and the answer already given stays "accepted".
C32_TriggerNeverSurfacesErrors ==
    /\ [](\A r \in DOMAIN requests :
             /\ requests[r].pc # "raised"
             /\ requests[r].pc \in {"scheduled", "analysis", "persist", "deliver"} =>
                   requests[r].answer = Some("accepted")
             /\ requests[r].outcome # NULL =>
                   /\ requests[r].pc = "finished"
                   /\ requests[r].answer = Some("accepted"))
    /\ [][\A r \in DOMAIN requests :
             /\ requests[r].answer # NULL => requests'[r].answer = requests[r].answer
             /\ (r \in InBody /\ requests'[r].pc \notin {"persist", "deliver"}
                   /\ requests'[r] # requests[r]) =>
                   /\ requests'[r].pc = "finished"
                   /\ \/ /\ requests[r].pc = "deliver"
                         /\ requests'[r].outcome =
                                Some(SuccessResult(Val(requests[r].report_id)))
                      \/ \E e \in AnalysisErrors \cup DeliverErrors
                                    \cup {StoreError("save_report")} :
                            requests'[r].outcome = Some(ErrorOutcome(e))]_vars

\* C32 witness: a request was answered "accepted", and its generation, which
\* saved the report, failed in the delivery and ended with the error outcome.
C32_Witness ==
    \E r \in DOMAIN requests :
        /\ requests[r].answer = Some("accepted")
        /\ requests[r].pc = "finished"
        /\ requests[r].report_id # NULL
        /\ requests[r].outcome # NULL
        /\ Val(requests[r].outcome).status = "error"
        /\ Val(requests[r].outcome).error_type = "RuntimeError"

\* C33 (at most one processing job, also under faults).  With failing
\* Store calls of the worker loop and with crashes and restarts, at most one
\* job has stored status processing.
C33_AtMostOneProcessingUnderFaults ==
    \A j, k \in DOMAIN jobs :
        (jobs[j].status = "processing" /\ jobs[k].status = "processing") => j = k

\* C34 (at most one report per job).  With no failing Store call every job
\* persists at most one report over all of its attempts, so there are never
\* more reports than jobs that have been executed, and every completed job
\* names a persisted report of its own in its result.
C34_OneReportPerJob ==
    /\ Len(reports) <= Cardinality({j \in DOMAIN jobs : attempts[j] > 0})
    /\ \A j \in DOMAIN jobs :
          jobs[j].status = "completed" =>
              /\ jobs[j].result # NULL
              /\ json_loads(Val(jobs[j].result)).report_id \in DOMAIN reports
              /\ \A k \in DOMAIN jobs :
                    (k # j /\ jobs[k].status = "completed") =>
                        jobs[k].result # jobs[j].result

\* C35 (result and error follow the status).  A job has a result exactly
\* when it is completed and an error text exactly when it is failed; a job
\* put back to pending for a retry carries no error text.
C35_ResultErrorFollowStatus ==
    \A j \in DOMAIN jobs :
        /\ jobs[j].result # NULL <=> jobs[j].status = "completed"
        /\ jobs[j].error # NULL <=> jobs[j].status = "failed"

\* C35 witness: one job has failed for good with its error text and no
\* result, another one waits for its retry without an error text.
C35_Witness ==
    \E j, k \in DOMAIN jobs :
        /\ jobs[j].status = "failed"
        /\ jobs[j].error # NULL
        /\ jobs[j].result = NULL
        /\ jobs[k].status = "pending"
        /\ jobs[k].retry_count >= 1
        /\ attempts[k] >= 1
        /\ jobs[k].error = NULL

\* C36 (payload round trip).  For every payload enqueue accepts (none, a
\* non-empty dict, the empty dict), when no older job is pending, the job
\* that get_next_job returns after the enqueue is the enqueued one and
\* carries that payload.
C36_PayloadRoundTrip ==
    \A p \in EnqueuePayloads \cup {Some(UrgentDict)}, ty \in JobTypes :
        PendingIds(jobs) = {} =>
            LET got == get_next_job(enqueue(jobs, ty, p, now)) IN
            /\ got # NULL
            /\ Val(got).id = Len(jobs) + 1
            /\ Val(got).payload = p

\* C37 (dequeue is read-only).  The step in which the loop gets its next
\* job changes no job row; the job it got is still pending until
\* mark_processing; and as long as it is not marked, asking again returns
\* the same job, whatever has been enqueued in the meantime.
C37_DequeueReadOnly ==
    /\ [][(pc = "poll" /\ pc' \in {"mark", "sleep_poll"}) =>
              /\ jobs' = jobs
              /\ job' = get_next_job(jobs)
              /\ get_next_job(jobs') = job']_vars
    /\ [](pc = "mark" =>
              /\ job # NULL
              /\ jobs[Val(job).id].status = "pending"
              /\ get_next_job(jobs) = job)

\* C37 witness: the loop holds the first job, not yet marked, and a second
\* job has been enqueued behind it.
C37_Witness ==
    /\ pc = "mark"
    /\ Len(jobs) = 2
    /\ Val(job).id = 1
    /\ jobs[1].status = "pending"
    /\ jobs[2].status = "pending"
    /\ get_next_job(jobs) = job

\* C38 (mutual exclusion in the direct-trigger variant).  At most one
\* background task is inside the body of generate_and_send_report;
\* report_in_progress is true exactly while one is; the task that leaves the
\* body, by success or by exception, resets the flag; a task skipped by the
\* guard finds the flag set and leaves it set.
C38_TriggerMutualExclusion ==
    /\ [](/\ Cardinality(InBody) <= 1
          /\ report_in_progress <=> InBody # {})
    /\ [][\A r \in DOMAIN requests :
             /\ (requests[r].pc = "scheduled" /\ requests'[r].pc = "finished") =>
                   /\ requests'[r].outcome = Some(Skipped)
                   /\ report_in_progress
                   /\ report_in_progress'
             /\ (requests[r].pc = "scheduled" /\ requests'[r].pc = "analysis") =>
                   (~report_in_progress /\ report_in_progress')
             /\ (r \in InBody /\ requests'[r].pc = "finished") =>
                   ~report_in_progress']_vars

\* C38 witness: one task is in the body, its analysis done, while another
\* task has been skipped by the guard and the flag is still set.
C38_Witness ==
    \E r, s \in DOMAIN requests :
        /\ requests[r].pc = "persist"
        /\ requests[s].pc = "finished"
        /\ requests[s].outcome = Some(Skipped)
        /\ report_in_progress

\* C39 (accepted triggers are honoured in the direct-trigger variant).  A
\* request is accepted only when no generation is outstanding, so at most
\* one accepted request is waiting for its answer, scheduled or running,
\* and no background task of an accepted request is skipped.
C39_AcceptedTriggersHonoured ==
    /\ Cardinality({r \in DOMAIN requests :
                       /\ requests[r].reply = "accepted"
                       /\ requests[r].pc # "finished"}) <= 1
    /\ \A r \in DOMAIN requests : requests[r].outcome # Some(Skipped)

====
